---- MODULE Spec2Model ----
(***************************************************************************)
(* vulkano/src/instance/debug.rs: registration of a debug callback          *)
(* (DebugCallback), the trampoline `callback` the Vulkan side calls, the    *)
(* drop of a DebugCallback, and the MessageSeverity / MessageType values.   *)
(***************************************************************************)
EXTENDS Integers, Sequences, FiniteSets, Bags, TLC

----------------------------------------------------------------------------
(* Bounds of the model *)

\* number of calls of DebugCallback::new in one behaviour
MaxSubs == 1
\* number of events the Vulkan side hands to the trampoline in one behaviour
MaxEvents == 2

Subs == 1..MaxSubs
Handles == 1..MaxSubs
Addrs == 1..MaxSubs
Threads == {"t1", "t2"}
MainThread == "t1"
Instances == {"i1", "i2"}

----------------------------------------------------------------------------
(* ash::vk flag bits, as debug.rs names them *)

SEVERITY_VERBOSE == 1
SEVERITY_INFO == 16
SEVERITY_WARNING == 256
SEVERITY_ERROR == 4096
TYPE_GENERAL == 1
TYPE_VALIDATION == 2
TYPE_PERFORMANCE == 4

\* a bit ash defines for neither mask (reserved / unknown to debug.rs): the
\* one above the type bits, which lies between VERBOSE and INFO
RESERVED_BIT == 2 * TYPE_PERFORMANCE

RECURSIVE BitAnd(_, _)
BitAnd(a, b) ==
    IF a = 0 \/ b = 0 THEN 0
    ELSE (a % 2) * (b % 2) + 2 * BitAnd(a \div 2, b \div 2)

RECURSIVE BitOrInt(_, _)
BitOrInt(a, b) ==
    IF a = 0 THEN b
    ELSE IF b = 0 THEN a
    ELSE (IF a % 2 = 1 \/ b % 2 = 1 THEN 1 ELSE 0) + 2 * BitOrInt(a \div 2, b \div 2)

----------------------------------------------------------------------------
(* MessageSeverity, MessageType *)

MessageSeverity ==
    [error : BOOLEAN, warning : BOOLEAN, information : BOOLEAN, verbose : BOOLEAN]

MessageType == [general : BOOLEAN, validation : BOOLEAN, performance : BOOLEAN]

MessageSeverity_none ==
    [error |-> FALSE, warning |-> FALSE, information |-> FALSE, verbose |-> FALSE]

MessageSeverity_all ==
    [error |-> TRUE, warning |-> TRUE, information |-> TRUE, verbose |-> TRUE]

MessageSeverity_errors_and_warnings ==
    [MessageSeverity_none EXCEPT !.error = TRUE, !.warning = TRUE]

MessageType_general == [general |-> TRUE, validation |-> FALSE, performance |-> FALSE]

MessageType_all == [general |-> TRUE, validation |-> TRUE, performance |-> TRUE]

MessageType_none == [general |-> FALSE, validation |-> FALSE, performance |-> FALSE]

\* a bitor that takes `verbose` from the left operand only
MessageSeverity_bitor_dropping(self, rhs) ==
    [error |-> self.error \/ rhs.error,
     warning |-> self.warning \/ rhs.warning,
     information |-> self.information \/ rhs.information,
     verbose |-> self.verbose]

\* impl BitOr for MessageSeverity
MessageSeverity_bitor(self, rhs) ==
    [error |-> self.error \/ rhs.error,
     warning |-> self.warning \/ rhs.warning,
     information |-> self.information \/ rhs.information,
     verbose |-> self.verbose \/ rhs.verbose]

\* impl BitOr for MessageType
MessageType_bitor(self, rhs) ==
    [general |-> self.general \/ rhs.general,
     validation |-> self.validation \/ rhs.validation,
     performance |-> self.performance \/ rhs.performance]

----------------------------------------------------------------------------
(* The flags DebugCallback::new builds, and the per-bit tests of `callback` *)

\* severity flags in which `information` sets the WARNING bit
severity_to_flags_swapped(severity) ==
    LET f0 == 0
        f1 == IF severity.information THEN BitOrInt(f0, SEVERITY_WARNING) ELSE f0
        f2 == IF severity.warning THEN BitOrInt(f1, SEVERITY_WARNING) ELSE f1
        f3 == IF severity.error THEN BitOrInt(f2, SEVERITY_ERROR) ELSE f2
        f4 == IF severity.verbose THEN BitOrInt(f3, SEVERITY_VERBOSE) ELSE f3
    IN  f4

\* lines 138-153: the severity flags of the create infos
severity_to_flags(severity) ==
    LET f0 == 0
        f1 == IF severity.information THEN BitOrInt(f0, SEVERITY_INFO) ELSE f0
        f2 == IF severity.warning THEN BitOrInt(f1, SEVERITY_WARNING) ELSE f1
        f3 == IF severity.error THEN BitOrInt(f2, SEVERITY_ERROR) ELSE f2
        f4 == IF severity.verbose THEN BitOrInt(f3, SEVERITY_VERBOSE) ELSE f3
    IN  f4

\* lines 155-167: the type flags of the create infos
type_to_flags(ty) ==
    LET f0 == 0
        f1 == IF ty.general THEN BitOrInt(f0, TYPE_GENERAL) ELSE f0
        f2 == IF ty.validation THEN BitOrInt(f1, TYPE_VALIDATION) ELSE f1
        f3 == IF ty.performance THEN BitOrInt(f2, TYPE_PERFORMANCE) ELSE f2
    IN  f3

\* a decoding that compares the whole mask with each bit
severity_from_flags_exact(severity) ==
    [information |-> severity = SEVERITY_INFO,
     warning |-> severity = SEVERITY_WARNING,
     error |-> severity = SEVERITY_ERROR,
     verbose |-> severity = SEVERITY_VERBOSE]

\* lines 108-117: Message.severity, by the per-bit tests
severity_from_flags(severity) ==
    [information |-> BitAnd(severity, SEVERITY_INFO) # 0,
     warning |-> BitAnd(severity, SEVERITY_WARNING) # 0,
     error |-> BitAnd(severity, SEVERITY_ERROR) # 0,
     verbose |-> BitAnd(severity, SEVERITY_VERBOSE) # 0]

\* lines 118-124: Message.ty, by the per-bit tests
type_from_flags(ty) ==
    [general |-> BitAnd(ty, TYPE_GENERAL) # 0,
     validation |-> BitAnd(ty, TYPE_VALIDATION) # 0,
     performance |-> BitAnd(ty, TYPE_PERFORMANCE) # 0]

\* the bits debug.rs names, per mask
SeverityBits == {SEVERITY_VERBOSE, SEVERITY_INFO, SEVERITY_WARNING, SEVERITY_ERROR}
TypeBits == {TYPE_GENERAL, TYPE_VALIDATION, TYPE_PERFORMANCE}

\* a bit far above those ash defines (bit 30 of the 32 of a Flags value)
HIGH_BIT == 2^30

\* the masks the Vulkan side may pass: every value below the next power of
\* two above the named bits, each also with the high bit set
SeverityMasks ==
    {m + k * HIGH_BIT : m \in 0..(2 * SEVERITY_ERROR - 1), k \in {0, 1}}
TypeMasks ==
    {m + k * HIGH_BIT : m \in 0..(4 * TYPE_PERFORMANCE - 1), k \in {0, 1}}

\* the mask m with every bit outside `bits` cleared
RECURSIVE ClearOutside(_, _)
ClearOutside(m, bits) ==
    IF bits = {} THEN 0
    ELSE LET b == CHOOSE x \in bits : TRUE
         IN  (IF (m \div b) % 2 = 1 THEN b ELSE 0) + ClearOutside(m, bits \ {b})

----------------------------------------------------------------------------
(* C strings of an event record, and CStr::to_str *)

\* a pointer to a NUL-terminated byte string, and the null pointer
Ptr(bytes) == [null |-> FALSE, bytes |-> bytes]
NULL == [null |-> TRUE, bytes |-> <<>>]

\* bytes of the texts the events carry: "A", "L", a two-byte UTF-8
\* character, and a byte that no UTF-8 text contains
TEXT_A == <<65>>
TEXT_L == <<76>>
TEXT_C_CEDILLA == <<195, 135>>
TEXT_NOT_UTF8 == <<255>>

\* UTF-8 validity of a byte string, for one- and two-byte sequences (the
\* texts above use no longer ones)
RECURSIVE IsUtf8(_)
IsUtf8(bytes) ==
    IF bytes = <<>> THEN TRUE
    ELSE IF Head(bytes) < 128 THEN IsUtf8(Tail(bytes))
    ELSE IF /\ Head(bytes) >= 194 /\ Head(bytes) <= 223
            /\ Len(bytes) >= 2
            /\ bytes[2] >= 128 /\ bytes[2] <= 191
         THEN IsUtf8(Tail(Tail(bytes)))
    ELSE FALSE

\* a lossy decoding (to_string_lossy): never an error; text that is not
\* UTF-8 becomes the replacement character U+FFFD
to_str_lossy(bytes) ==
    [ok |-> TRUE, val |-> IF IsUtf8(bytes) THEN bytes ELSE <<239, 191, 189>>]

\* CStr::from_ptr(p).to_str(): Ok(text) or Err(Utf8Error)
to_str(bytes) ==
    IF IsUtf8(bytes) THEN [ok |-> TRUE, val |-> bytes] ELSE [ok |-> FALSE, val |-> <<>>]

None == [is_some |-> FALSE, val |-> <<>>]
Some(v) == [is_some |-> TRUE, val |-> v]

\* the event records (DebugUtilsMessengerCallbackDataEXT with the two
\* bitmasks of the call) the Vulkan side hands over
Events ==
    { [severity |-> SEVERITY_ERROR, ty |-> TYPE_GENERAL,
       p_message_id_name |-> NULL, p_message |-> Ptr(TEXT_A)],
      [severity |-> SEVERITY_INFO + SEVERITY_VERBOSE + RESERVED_BIT,
       ty |-> TYPE_PERFORMANCE + TYPE_VALIDATION + RESERVED_BIT,
       p_message_id_name |-> Ptr(TEXT_L), p_message |-> Ptr(TEXT_C_CEDILLA)],
      [severity |-> SEVERITY_ERROR, ty |-> TYPE_GENERAL,
       p_message_id_name |-> NULL, p_message |-> Ptr(TEXT_NOT_UTF8)],
      [severity |-> SEVERITY_WARNING, ty |-> TYPE_GENERAL,
       p_message_id_name |-> Ptr(TEXT_NOT_UTF8), p_message |-> Ptr(TEXT_A)],
      [severity |-> SEVERITY_WARNING, ty |-> TYPE_VALIDATION,
       p_message_id_name |-> Ptr(TEXT_NOT_UTF8), p_message |-> Ptr(TEXT_NOT_UTF8)] }

\* an event whose texts decode
WellFormed(ev) ==
    /\ IsUtf8(ev.p_message.bytes)
    /\ (~ev.p_message_id_name.null => IsUtf8(ev.p_message_id_name.bytes))

\* the filters the calls of DebugCallback::new pass: those of
\* errors_and_warnings and of tests::ensure_sendable
NewArgs ==
    { [severity |-> MessageSeverity_errors_and_warnings, ty |-> MessageType_general],
      [severity |-> MessageSeverity_none, ty |-> MessageType_all] }

\* results of vkCreateDebugUtilsMessengerEXT
NativeResults == {"SUCCESS", "ERROR_OUT_OF_HOST_MEMORY"}

----------------------------------------------------------------------------
(* The Message `callback` builds from an event: lines 94-127.  An `expect`  *)
(* that fails panics before the message exists.                             *)

\* a decoding that demands an identifier: a null pointer fails its `expect`
decode_message_id_required(severity, ty, callback_data) ==
    LET id == callback_data.p_message_id_name
        layer_prefix == IF id.null THEN [ok |-> FALSE, val |-> None]
                        ELSE LET r == to_str(id.bytes)
                             IN  [ok |-> r.ok, val |-> Some(r.val)]
        description == to_str(callback_data.p_message.bytes)
    IN  IF ~layer_prefix.ok
        THEN [panic |-> TRUE, at |-> "layer_prefix", message |-> <<>>]
        ELSE IF ~description.ok
        THEN [panic |-> TRUE, at |-> "description", message |-> <<>>]
        ELSE [panic |-> FALSE, at |-> "none",
              message |-> [severity |-> severity_from_flags(severity),
                           ty |-> type_from_flags(ty),
                           layer_prefix |-> layer_prefix.val,
                           description |-> description.val]]

\* a decoding that takes the identifier as it is, without to_str
decode_message_id_unchecked(severity, ty, callback_data) ==
    LET description == to_str(callback_data.p_message.bytes)
    IN  IF ~description.ok
        THEN [panic |-> TRUE, at |-> "description", message |-> <<>>]
        ELSE [panic |-> FALSE, at |-> "none",
              message |-> [severity |-> severity_from_flags(severity),
                           ty |-> type_from_flags(ty),
                           layer_prefix |->
                               IF callback_data.p_message_id_name.null THEN None
                               ELSE Some(callback_data.p_message_id_name.bytes),
                           description |-> description.val]]

\* lines 94-127: the texts are decoded, the identifier first, each with
\* `expect`, and the Message is built
decode_message(severity, ty, callback_data) ==
    LET id == callback_data.p_message_id_name
        layer_prefix == IF id.null THEN [ok |-> TRUE, val |-> None]
                        ELSE LET r == to_str(id.bytes)
                             IN  [ok |-> r.ok, val |-> Some(r.val)]
        description == to_str(callback_data.p_message.bytes)
    IN  IF ~layer_prefix.ok
        THEN [panic |-> TRUE, at |-> "layer_prefix", message |-> <<>>]
        ELSE IF ~description.ok
        THEN [panic |-> TRUE, at |-> "description", message |-> <<>>]
        ELSE [panic |-> FALSE, at |-> "none",
              message |-> [severity |-> severity_from_flags(severity),
                           ty |-> type_from_flags(ty),
                           layer_prefix |-> layer_prefix.val,
                           description |-> description.val]]

\* a call of the user callback without catch_unwind: a panic unwinds on
catch_unwind_absent(outcome) == IF outcome = "panicked" THEN "unwinding" ELSE "Ok"

\* panic::catch_unwind around the user callback: a panic is caught and the
\* result discarded; nothing unwinds further
catch_unwind(outcome) == IF outcome = "panicked" THEN "Err" ELSE "Ok"

\* a conversion that wraps the native error in an error value
From_Error_returning(err) == [panic |-> FALSE, err |-> err]

\* impl From<Error> for DebugCallbackCreationError: panic!("unexpected error")
From_Error(err) == [panic |-> TRUE, err |-> "none"]

----------------------------------------------------------------------------
(* State *)

VARIABLES
    instances,    \* Arc<Instance>: the extension flag, the strong count, and
                  \* whether the application still holds its own Arc
    subs,         \* one entry per call of DebugCallback::new, and the
                  \* DebugCallback it returned
    heap,         \* the Box<Box<dyn Fn>> allocations: the cells by address,
                  \* and how often the Box of each call was released
    messengers,   \* the Vulkan side: the messengers by handle
    nativeCalls,  \* the Vulkan side: the bag of create / destroy calls received
    inflight,     \* per thread, the invocation of `callback` in progress
    handed,       \* the events handed to `callback`, in order
    invoked,      \* the invocations of user callbacks, in order
    process,      \* "running", or "aborted" after an uncontained panic
    calc          \* the operands and results of the last value computation

vars == <<instances, subs, heap, messengers, nativeCalls, inflight,
          handed, invoked, process, calc>>

progvars == <<instances, subs, heap, messengers, nativeCalls,
              inflight, handed, invoked, process>>

NoSub ==
    [pc |-> "idle", thread |-> "none", instance |-> "none",
     severity |-> MessageSeverity_none, ty |-> MessageType_none,
     user_callback |-> 0, native_result |-> "none",
     debug_report_callback |-> 0, result |-> "none"]

NoMessenger ==
    [state |-> "none", instance |-> "none", message_severity |-> 0,
     message_type |-> 0, pfn_user_callback |-> "none", p_user_data |-> 0]

Init ==
    /\ instances = [i \in Instances |->
                       [ext_debug_utils |-> (i = "i1"), strong |-> 1, app |-> TRUE]]
    /\ subs = [s \in Subs |-> NoSub]
    /\ heap = [cells |-> [a \in Addrs |-> [state |-> "free", obj |-> 0]],
               released |-> [s \in Subs |-> 0]]
    /\ messengers = [h \in Handles |-> NoMessenger]
    /\ nativeCalls = EmptyBag
    /\ inflight = [t \in Threads |-> 0]
    /\ handed = <<>>
    /\ invoked = <<>>
    /\ process = "running"
    /\ calc = [op |-> "none"]

----------------------------------------------------------------------------
(* The Box of the user callback *)

\* line 83: an address Box::new may return: one that was released, or the
\* next one never used
box_new_may_return(a) ==
    \/ heap.cells[a].state = "freed"
    \/ /\ heap.cells[a].state = "free"
       /\ \A b \in Addrs : b < a => heap.cells[b].state # "free"

\* line 83: Box::new(Box::new(user_callback)) of call s, at address a
box_new(hp, s, a) ==
    [hp EXCEPT !.cells[a] = [state |-> "alloc", obj |-> s]]

\* the Box of call s, at address a, is dropped
box_drop(hp, s, a) ==
    [hp EXCEPT !.cells[a].state = "freed", !.released[s] = @ + 1]

\* a new that does not keep the Box in the value it returns: the local is
\* dropped at the return
box_moved_into_struct_dropped(hp, s) == box_drop(hp, s, subs[s].user_callback)

\* line 194: Ok(DebugCallback { .., user_callback }): the Box moves into
\* the value returned; the heap is as it was
box_moved_into_struct(hp, s) == hp

\* line 187: `?` leaves new while the local user_callback is live: the Box
\* is dropped
box_dropped_on_exit(hp, s) == box_drop(hp, s, subs[s].user_callback)

\* a drop that leaves the Box allocated
drop_user_callback_forgotten(hp, s) == hp

\* line 61: the field user_callback is dropped with the DebugCallback
drop_user_callback(hp, s) == box_drop(hp, s, subs[s].user_callback)

----------------------------------------------------------------------------
(* DebugCallback::new *)

\* a new that does not look at the extension
ext_debug_utils_unchecked(i) == TRUE

\* line 77: instance.enabled_extensions().ext_debug_utils
ext_debug_utils_enabled(i) == instances[i].ext_debug_utils

\* lines 169-176: the DebugUtilsMessengerCreateInfoEXT of call s
create_infos(s) ==
    [message_severity |-> severity_to_flags(subs[s].severity),
     message_type |-> type_to_flags(subs[s].ty),
     pfn_user_callback |-> "callback",
     p_user_data |-> subs[s].user_callback]

\* the handle vkCreateDebugUtilsMessengerEXT writes to `output`
fresh_handle == 1 + Cardinality({h \in Handles : messengers[h].state # "none"})

\* lines 68-83: the extension check, then the double box of the callback.
\* The main thread calls new(&instances[i], severity, ty, user_callback) as
\* call s.
DebugCallback_new(s, i, severity, ty) ==
    /\ process = "running"
    /\ subs[s].pc = "idle"
    /\ \A r \in Subs : r < s => subs[r].pc # "idle"
    /\ instances[i].app
    /\ IF ~ext_debug_utils_enabled(i)
       THEN /\ subs' = [subs EXCEPT ![s] = [@ EXCEPT !.pc = "returned",
                                                     !.thread = MainThread,
                                                     !.instance = i,
                                                     !.result = "MissingExtension"]]
            /\ UNCHANGED heap
       ELSE \E a \in Addrs :
              /\ box_new_may_return(a)
              /\ heap' = box_new(heap, s, a)
              /\ subs' = [subs EXCEPT ![s] = [@ EXCEPT !.pc = "boxed",
                                                       !.thread = MainThread,
                                                       !.instance = i,
                                                       !.severity = severity,
                                                       !.ty = ty,
                                                       !.user_callback = a]]
    /\ UNCHANGED <<instances, messengers, nativeCalls, inflight,
                   handed, invoked, process, calc>>

\* a shortcut that asks for every type of message
DebugCallback_errors_and_warnings_all_types(s, i) ==
    DebugCallback_new(s, i, MessageSeverity_errors_and_warnings, MessageType_all)

\* lines 198-215: errors_and_warnings(instance, user_callback) is
\* DebugCallback::new(instance, MessageSeverity::errors_and_warnings(),
\* MessageType::general(), user_callback)
DebugCallback_errors_and_warnings(s, i) ==
    DebugCallback_new(s, i, MessageSeverity_errors_and_warnings, MessageType_general)

\* a DebugCallback that keeps the instance without counting itself
Arc_clone_uncounted(strong) == strong

\* line 192: instance.clone(): one more strong reference to the Instance
Arc_clone(strong) == strong + 1

\* lines 138-196: the flags, the create infos, the native create call with
\* result r, and the return.  `?` converts an error with From<Error>.
DebugCallback_new_create(s, r) ==
    /\ process = "running"
    /\ subs[s].pc = "boxed"
    /\ LET i == subs[s].instance
           infos == create_infos(s)
           h == IF r = "SUCCESS" THEN fresh_handle ELSE 0
           conv == From_Error(r)
       IN  /\ nativeCalls' = nativeCalls (+) SetToBag({
                                    [fn |-> "create", instance |-> i, handle |-> h,
                                     result |-> r]})
           /\ IF r = "SUCCESS"
              THEN /\ messengers' = [messengers EXCEPT ![h] =
                                        [state |-> "valid", instance |-> i,
                                         message_severity |-> infos.message_severity,
                                         message_type |-> infos.message_type,
                                         pfn_user_callback |-> infos.pfn_user_callback,
                                         p_user_data |-> infos.p_user_data]]
                   /\ instances' = [instances EXCEPT ![i].strong = Arc_clone(@)]
                   /\ subs' = [subs EXCEPT ![s] = [@ EXCEPT !.pc = "active",
                                                            !.native_result = r,
                                                            !.debug_report_callback = h,
                                                            !.result = "Ok"]]
                   /\ heap' = box_moved_into_struct(heap, s)
              ELSE /\ subs' = [subs EXCEPT ![s] =
                                  [@ EXCEPT !.pc = IF conv.panic THEN "panicked" ELSE "returned",
                                            !.native_result = r,
                                            !.result = IF conv.panic THEN "panic" ELSE conv.err]]
                   /\ heap' = box_dropped_on_exit(heap, s)
                   /\ UNCHANGED <<messengers, instances>>
    /\ UNCHANGED <<inflight, handed, invoked, process, calc>>

\* the application lets go of its own Arc<Instance>, after its calls of
\* new, for an instance it got a DebugCallback of
AppDropInstance(i) ==
    /\ process = "running"
    /\ instances[i].app
    /\ \A s \in Subs : subs[s].pc # "idle"
    /\ \E s \in Subs : subs[s].result = "Ok" /\ subs[s].instance = i
    /\ instances' = [instances EXCEPT ![i].app = FALSE, ![i].strong = @ - 1]
    /\ UNCHANGED <<subs, heap, messengers, nativeCalls, inflight,
                   handed, invoked, process, calc>>

----------------------------------------------------------------------------
(* impl Drop for DebugCallback *)

\* a destroy call that passes the null handle
destroy_args_null_handle(s) == [instance |-> subs[s].instance, handle |-> 0]

\* lines 223-227: the arguments of destroy_debug_utils_messenger_ext
destroy_args(s) ==
    [instance |-> subs[s].instance, handle |-> subs[s].debug_report_callback]

\* the invocations of `callback` for messenger h that have not returned
InProgress(h) == {t \in Threads : inflight[t] # 0 /\ handed[inflight[t]].h = h}

\* a Vulkan side whose destroy call returns while invocations are running
destroy_waits_for_nothing(h) == {}

\* what the destroy call waits for: the Vulkan side returns from it only
\* when no invocation for the messenger is in progress
destroy_waits_for(h) == InProgress(h)

\* lines 220-227: Drop::drop enters the native destroy call, on thread t:
\* the main thread, or a thread the DebugCallback was moved to
\* (tests::ensure_sendable); t is not inside an invocation itself.  The
\* Vulkan side starts no invocation for a messenger whose destroy call it
\* has received.
DebugCallback_drop(s, t) ==
    /\ process = "running"
    /\ subs[s].pc = "active"
    /\ inflight[t] = 0
    /\ LET args == destroy_args(s)
       IN  /\ nativeCalls' = nativeCalls (+) SetToBag({
                                    [fn |-> "destroy", instance |-> args.instance,
                                     handle |-> args.handle, result |-> "none"]})
           /\ messengers' = [h \in Handles |->
                                IF /\ h = args.handle
                                   /\ messengers[h].state = "valid"
                                   /\ messengers[h].instance = args.instance
                                THEN [messengers[h] EXCEPT !.state = "destroyed"]
                                ELSE messengers[h]]
    /\ subs' = [subs EXCEPT ![s].pc = "destroying", ![s].thread = t]
    /\ UNCHANGED <<instances, heap, inflight, handed, invoked, process, calc>>

\* lines 223-229: the native destroy call returns and Drop::drop ends
destroy_returns(s) ==
    /\ process = "running"
    /\ subs[s].pc = "destroying"
    /\ destroy_waits_for(destroy_args(s).handle) = {}
    /\ subs' = [subs EXCEPT ![s].pc = "dropping"]
    /\ UNCHANGED <<instances, heap, messengers, nativeCalls, inflight, handed,
                   invoked, process, calc>>

\* lines 58-62: after Drop::drop the fields are dropped in declaration
\* order: the Arc<Instance>, the handle, the Box of the callback
drop_fields(s) ==
    /\ process = "running"
    /\ subs[s].pc = "dropping"
    /\ instances' = [instances EXCEPT ![subs[s].instance].strong = @ - 1]
    /\ heap' = drop_user_callback(heap, s)
    /\ subs' = [subs EXCEPT ![s].pc = "dead", ![s].thread = "none"]
    /\ UNCHANGED <<messengers, nativeCalls, inflight, handed, invoked, process, calc>>

----------------------------------------------------------------------------
(* The trampoline `callback` *)

\* lines 91-92: what the reference made from user_data designates.  While
\* the Box is allocated it is the callback of the call that made it; a
\* released Box is a dangling reference: the call through it reaches the
\* old contents or faults.
deref_user_data(user_data) ==
    IF heap.cells[user_data].state = "alloc"
    THEN {[crash |-> FALSE, obj |-> heap.cells[user_data].obj]}
    ELSE {[crash |-> FALSE, obj |-> heap.cells[user_data].obj],
          [crash |-> TRUE, obj |-> 0]}

\* a trampoline that keeps its message in a static: with an invocation in
\* progress on another thread, the callback is given what that one stored
user_callback_argument_static(message) ==
    IF \E t \in Threads : inflight[t] # 0
    THEN invoked[inflight[CHOOSE t \in Threads : inflight[t] # 0]].message
    ELSE message

\* line 132: user_callback(&message): the argument is a reference to the
\* local `message` of this invocation
user_callback_argument(message) == message

\* a trampoline that tests the event against the flags of the messenger
\* and returns early when they do not intersect
callback_filtering(t, h, ev) ==
    /\ process = "running"
    /\ inflight[t] = 0
    /\ Len(handed) < MaxEvents
    /\ LET dec == decode_message(ev.severity, ev.ty, ev)
           pass == /\ BitAnd(ev.severity, messengers[h].message_severity) # 0
                   /\ BitAnd(ev.ty, messengers[h].message_type) # 0
       IN  IF dec.panic
           THEN /\ handed' = Append(handed, [h |-> h, ev |-> ev, st |-> "decode_panic",
                                             at |-> dec.at, ret |-> "none"])
                /\ process' = "aborted"
                /\ UNCHANGED <<invoked, inflight>>
           ELSE IF ~pass
           THEN /\ handed' = Append(handed, [h |-> h, ev |-> ev, st |-> "returned",
                                             at |-> "none", ret |-> "FALSE"])
                /\ UNCHANGED <<invoked, inflight, process>>
           ELSE /\ handed' = Append(handed, [h |-> h, ev |-> ev, st |-> "in_user",
                                             at |-> "none", ret |-> "none"])
                /\ invoked' = Append(invoked,
                                     [cb |-> heap.cells[messengers[h].p_user_data].obj,
                                      h |-> h, message |-> dec.message])
                /\ inflight' = [inflight EXCEPT ![t] = Len(handed) + 1]
                /\ UNCHANGED process
    /\ UNCHANGED <<instances, subs, heap, messengers, nativeCalls, calc>>

\* lines 85-132: thread t enters callback(ev.severity, ev.ty, &ev,
\* user_data of messenger h): the message is built and the user callback
\* is called
callback(t, h, ev) ==
    /\ process = "running"
    /\ inflight[t] = 0
    /\ Len(handed) < MaxEvents
    /\ LET dec == decode_message(ev.severity, ev.ty, ev)
       IN  IF dec.panic
           THEN /\ handed' = Append(handed, [h |-> h, ev |-> ev, st |-> "decode_panic",
                                             at |-> dec.at, ret |-> "none"])
                /\ process' = "aborted"
                /\ UNCHANGED <<invoked, inflight>>
           ELSE \E tgt \in deref_user_data(messengers[h].p_user_data) :
                  IF tgt.crash
                  THEN /\ handed' = Append(handed, [h |-> h, ev |-> ev, st |-> "fault",
                                                    at |-> "none", ret |-> "none"])
                       /\ process' = "aborted"
                       /\ UNCHANGED <<invoked, inflight>>
                  ELSE /\ handed' = Append(handed, [h |-> h, ev |-> ev, st |-> "in_user",
                                                    at |-> "none", ret |-> "none"])
                       /\ invoked' = Append(invoked,
                                            [cb |-> tgt.obj, h |-> h,
                                             message |-> user_callback_argument(dec.message)])
                       /\ inflight' = [inflight EXCEPT ![t] = Len(handed) + 1]
                       /\ UNCHANGED process
    /\ UNCHANGED <<instances, subs, heap, messengers, nativeCalls, calc>>

\* a trampoline that reports a caught panic to the Vulkan side as TRUE
callback_Bool32_from_guard(guarded) == IF guarded = "Err" THEN "TRUE" ELSE "FALSE"

\* lines 131, 135: `let _ =` discards the result of catch_unwind, and the
\* value of the function is ash::vk::FALSE
callback_Bool32(guarded) == "FALSE"

\* lines 131-135: the user callback ends (it returned or it panicked),
\* catch_unwind yields, its result is discarded and FALSE is returned
callback_return(t, outcome) ==
    /\ process = "running"
    /\ inflight[t] # 0
    /\ LET k == inflight[t]
           guarded == catch_unwind(outcome)
       IN  IF guarded \in {"Ok", "Err"}
           THEN /\ handed' = [handed EXCEPT ![k].st = outcome,
                                             ![k].ret = callback_Bool32(guarded)]
                /\ UNCHANGED process
           ELSE /\ handed' = [handed EXCEPT ![k].st = outcome, ![k].ret = "unwound"]
                /\ process' = "aborted"
    /\ inflight' = [inflight EXCEPT ![t] = 0]
    /\ UNCHANGED <<instances, subs, heap, messengers, nativeCalls, invoked, calc>>

\* the Vulkan side calls the pfn_user_callback of a messenger it holds
NativeInvoke(t, h, ev) ==
    /\ messengers[h].state = "valid"
    /\ callback(t, h, ev)

\* a Vulkan side that calls the pair of a messenger it has destroyed
StaleInvoke(t, h, ev) ==
    /\ messengers[h].state = "destroyed"
    /\ callback(t, h, ev)

----------------------------------------------------------------------------
(* Specifications *)

Next ==
    \/ \E s \in Subs, i \in Instances, a \in NewArgs :
          DebugCallback_new(s, i, a.severity, a.ty)
    \/ \E s \in Subs, i \in Instances : DebugCallback_errors_and_warnings(s, i)
    \/ \E s \in Subs, r \in NativeResults : DebugCallback_new_create(s, r)
    \/ \E i \in Instances : AppDropInstance(i)
    \/ \E s \in Subs, t \in Threads : DebugCallback_drop(s, t)
    \/ \E s \in Subs : destroy_returns(s)
    \/ \E s \in Subs : drop_fields(s)
    \/ \E t \in Threads, h \in Handles, ev \in Events : NativeInvoke(t, h, ev)
    \/ \E t \in Threads, outcome \in {"returned", "panicked"} : callback_return(t, outcome)

Spec == Init /\ [][Next]_vars

\* the same program with a Vulkan side that also calls destroyed messengers
StaleNext ==
    \/ Next
    \/ \E t \in Threads, h \in Handles, ev \in Events : StaleInvoke(t, h, ev)

StaleSpec == Init /\ [][StaleNext]_vars

----------------------------------------------------------------------------
(* The value computations of MessageSeverity and MessageType: one          *)
(* computation per behaviour, over every value                              *)

\* the severity flags new builds from f and from g, and what the per-bit
\* tests of `callback` make of the flags of f
severity_codec(f, g) ==
    /\ calc.op = "none"
    /\ calc' = [op |-> "severity_codec", f |-> f, g |-> g,
                bits_f |-> severity_to_flags(f),
                bits_g |-> severity_to_flags(g),
                back |-> severity_from_flags(severity_to_flags(f))]
    /\ UNCHANGED progvars

\* the same for the type flags
type_codec(f, g) ==
    /\ calc.op = "none"
    /\ calc' = [op |-> "type_codec", f |-> f, g |-> g,
                bits_f |-> type_to_flags(f),
                bits_g |-> type_to_flags(g),
                back |-> type_from_flags(type_to_flags(f))]
    /\ UNCHANGED progvars

\* a | b, b | a, (a | b) | c, a | (b | c), a | none(), a | all()
severity_bitor(a, b, c) ==
    /\ calc.op = "none"
    /\ calc' = [op |-> "severity_bitor", a |-> a, b |-> b, c |-> c,
                ab |-> MessageSeverity_bitor(a, b),
                ba |-> MessageSeverity_bitor(b, a),
                ab_c |-> MessageSeverity_bitor(MessageSeverity_bitor(a, b), c),
                a_bc |-> MessageSeverity_bitor(a, MessageSeverity_bitor(b, c)),
                a_none |-> MessageSeverity_bitor(a, MessageSeverity_none),
                a_all |-> MessageSeverity_bitor(a, MessageSeverity_all)]
    /\ UNCHANGED progvars

type_bitor(a, b, c) ==
    /\ calc.op = "none"
    /\ calc' = [op |-> "type_bitor", a |-> a, b |-> b, c |-> c,
                ab |-> MessageType_bitor(a, b),
                ba |-> MessageType_bitor(b, a),
                ab_c |-> MessageType_bitor(MessageType_bitor(a, b), c),
                a_bc |-> MessageType_bitor(a, MessageType_bitor(b, c)),
                a_none |-> MessageType_bitor(a, MessageType_none),
                a_all |-> MessageType_bitor(a, MessageType_all)]
    /\ UNCHANGED progvars

\* what the per-bit tests of `callback` make of the mask m the Vulkan side
\* passes, and of m without the bits debug.rs does not name
severity_decode(m) ==
    /\ calc.op = "none"
    /\ calc' = [op |-> "severity_decode", m |-> m,
                known |-> ClearOutside(m, SeverityBits),
                flags |-> severity_from_flags(m),
                flags_known |-> severity_from_flags(ClearOutside(m, SeverityBits))]
    /\ UNCHANGED progvars

type_decode(m) ==
    /\ calc.op = "none"
    /\ calc' = [op |-> "type_decode", m |-> m,
                known |-> ClearOutside(m, TypeBits),
                flags |-> type_from_flags(m),
                flags_known |-> type_from_flags(ClearOutside(m, TypeBits))]
    /\ UNCHANGED progvars

FilterNext ==
    \/ \E m \in SeverityMasks : severity_decode(m)
    \/ \E m \in TypeMasks : type_decode(m)
    \/ \E f \in MessageSeverity, g \in MessageSeverity : severity_codec(f, g)
    \/ \E f \in MessageType, g \in MessageType : type_codec(f, g)
    \/ \E a \in MessageSeverity, b \in MessageSeverity, c \in MessageSeverity :
          severity_bitor(a, b, c)
    \/ \E a \in MessageType, b \in MessageType, c \in MessageType : type_bitor(a, b, c)

FilterSpec == Init /\ [][FilterNext]_vars

----------------------------------------------------------------------------
(* Properties *)

\* bit b (a power of two) of the mask m, by division
HasBit(m, b) == (m \div b) % 2 = 1

\* the DebugCallback that holds messenger h
SubOf(h) == CHOOSE s \in Subs : subs[s].debug_report_callback = h

\* the number of invocations of the user callback of call s
NumInvocations(s) == Cardinality({k \in 1..Len(invoked) : invoked[k].cb = s})

\* call s got an error from the native create call
NativeCreateFailed(s) == subs[s].native_result \notin {"none", "SUCCESS"}

\* C1: a call of new on an instance without ext_debug_utils returns
\* Err(MissingExtension), and the Vulkan side has received no call, create
\* or destroy, for that instance.
C1_MissingExtensionNoNativeCall ==
    \A s \in Subs :
        (subs[s].pc # "idle" /\ ~instances[subs[s].instance].ext_debug_utils) =>
            /\ subs[s].pc = "returned"
            /\ subs[s].result = "MissingExtension"
            /\ \A c \in BagToSet(nativeCalls) : c.instance # subs[s].instance

C1_Witness ==
    \E s \in Subs : subs[s].pc = "returned" /\ subs[s].instance = "i2"

\* C2: an invocation whose user callback panicked returned FALSE to the
\* Vulkan side (the panic did not leave the trampoline), and every later
\* well-formed event handed over for the same messenger reached the user
\* callback of that DebugCallback, with the event's text.
C2_PanicContained ==
    \A k \in 1..Len(handed) :
        handed[k].st = "panicked" =>
            /\ handed[k].ret = "FALSE"
            /\ \A j \in (k + 1)..Len(handed) :
                  (handed[j].h = handed[k].h /\ WellFormed(handed[j].ev)) =>
                      /\ j <= Len(invoked)
                      /\ invoked[j].cb = SubOf(handed[j].h)
                      /\ invoked[j].message.description = handed[j].ev.p_message.bytes

C2_Witness ==
    \E k \in 1..Len(handed), j \in 1..Len(handed) :
        /\ k < j
        /\ handed[k].st = "panicked"
        /\ handed[j].h = handed[k].h
        /\ handed[j].st = "returned"

\* C3: for every DebugCallback that new returned, the Vulkan side has
\* received exactly one create call that returned its handle for its
\* instance, and the destroy call for that handle and instance exactly once
\* once its drop has made the call and not before, whatever thread dropped it; every
\* destroy call received belongs to such a dropped DebugCallback, so none
\* was issued for a call of new that failed.
C3_DestroyExactlyOnce ==
    /\ \A s \in Subs :
          subs[s].result = "Ok" =>
              /\ CopiesIn([fn |-> "create", instance |-> subs[s].instance,
                           handle |-> subs[s].debug_report_callback,
                           result |-> "SUCCESS"], nativeCalls) = 1
              /\ CopiesIn([fn |-> "destroy", instance |-> subs[s].instance,
                           handle |-> subs[s].debug_report_callback,
                           result |-> "none"], nativeCalls)
                    = IF subs[s].pc \in {"destroying", "dropping", "dead"}
                      THEN 1 ELSE 0
    /\ \A c \in BagToSet(nativeCalls) :
          c.fn = "destroy" =>
              \E s \in Subs : /\ subs[s].result = "Ok"
                              /\ subs[s].pc \in {"destroying", "dropping", "dead"}
                              /\ c.instance = subs[s].instance
                              /\ c.handle = subs[s].debug_report_callback

C3_Witness ==
    \E s \in Subs : subs[s].pc = "dropping" /\ subs[s].thread # MainThread

\* C4: once a DebugCallback has been dropped, no step adds an invocation of
\* its user callback, also when the Vulkan side calls the pair of the
\* destroyed messenger.
C4_NoInvocationAfterTeardown ==
    [][\A s \in Subs :
          subs[s].pc = "dead" => NumInvocations(s)' = NumInvocations(s)]_vars

C7_BoxReleasedExactlyOnce ==
    \A s \in Subs :
        /\ heap.released[s] <= 1
        /\ subs[s].pc \in {"dead", "panicked"} => heap.released[s] = 1
        /\ subs[s].pc = "returned" =>
              heap.released[s] = IF subs[s].user_callback # 0 THEN 1 ELSE 0
        /\ subs[s].pc = "idle" => heap.released[s] = 0
        /\ subs[s].pc \in {"boxed", "active", "destroying", "dropping"} =>
              /\ heap.released[s] = 0
              /\ heap.cells[subs[s].user_callback] = [state |-> "alloc", obj |-> s]

C7_Witness ==
    \E s \in Subs : subs[s].pc = "dead" /\ Len(handed) > 0

\* C8: the user callbacks were invoked once per well-formed event handed
\* over, in the order of the events, each time the callback of the
\* DebugCallback that holds the messenger, with the event's text and with
\* flags equal to the bits of the event's own masks.
C8_NoFiltering ==
    /\ Len(invoked) = Cardinality({k \in 1..Len(handed) : WellFormed(handed[k].ev)})
    /\ \A k \in 1..Len(handed) :
          WellFormed(handed[k].ev) =>
              /\ k <= Len(invoked)
              /\ invoked[k].h = handed[k].h
              /\ invoked[k].cb = SubOf(handed[k].h)
              /\ invoked[k].message.description = handed[k].ev.p_message.bytes
              /\ invoked[k].message.severity =
                    [error |-> HasBit(handed[k].ev.severity, SEVERITY_ERROR),
                     warning |-> HasBit(handed[k].ev.severity, SEVERITY_WARNING),
                     information |-> HasBit(handed[k].ev.severity, SEVERITY_INFO),
                     verbose |-> HasBit(handed[k].ev.severity, SEVERITY_VERBOSE)]
              /\ invoked[k].message.ty =
                    [general |-> HasBit(handed[k].ev.ty, TYPE_GENERAL),
                     validation |-> HasBit(handed[k].ev.ty, TYPE_VALIDATION),
                     performance |-> HasBit(handed[k].ev.ty, TYPE_PERFORMANCE)]

C8_Witness ==
    /\ Len(invoked) = 2
    /\ invoked[1].message.description # invoked[2].message.description
    /\ \E k \in 1..2 :
          BitAnd(handed[k].ev.severity, messengers[handed[k].h].message_severity) = 0

\* C9: the per-bit tests of `callback`, applied to the flags new builds
\* from a value, give that value back, and two values with the same flags
\* are the same value; for MessageSeverity and for MessageType.
C9_RoundTrip ==
    calc.op \in {"severity_codec", "type_codec"} =>
        /\ calc.back = calc.f
        /\ calc.bits_f = calc.bits_g => calc.f = calc.g

C9_Witness ==
    /\ calc.op = "severity_codec"
    /\ calc.f.information /\ calc.f.verbose /\ ~calc.f.warning
    /\ calc.g # calc.f

\* C10: a | b has each flag set exactly when a or b has it; | is
\* commutative and associative; x | none() = x; x | all() = all(); for
\* MessageSeverity and for MessageType.
C10_Union ==
    /\ calc.op = "severity_bitor" =>
          /\ calc.ab.error = (calc.a.error \/ calc.b.error)
          /\ calc.ab.warning = (calc.a.warning \/ calc.b.warning)
          /\ calc.ab.information = (calc.a.information \/ calc.b.information)
          /\ calc.ab.verbose = (calc.a.verbose \/ calc.b.verbose)
          /\ calc.ab = calc.ba
          /\ calc.ab_c = calc.a_bc
          /\ calc.a_none = calc.a
          /\ calc.a_all = MessageSeverity_all
    /\ calc.op = "type_bitor" =>
          /\ calc.ab.general = (calc.a.general \/ calc.b.general)
          /\ calc.ab.validation = (calc.a.validation \/ calc.b.validation)
          /\ calc.ab.performance = (calc.a.performance \/ calc.b.performance)
          /\ calc.ab = calc.ba
          /\ calc.ab_c = calc.a_bc
          /\ calc.a_none = calc.a
          /\ calc.a_all = MessageType_all

C10_Witness ==
    /\ calc.op = "severity_bitor"
    /\ calc.a.error /\ ~calc.b.error
    /\ calc.b.verbose /\ ~calc.a.verbose
    /\ calc.c.warning

\* C11: every invocation of `callback` that has returned to the Vulkan
\* side returned FALSE, whatever the bits of its event and whether the user
\* callback returned or panicked; an invocation that has not returned (in
\* the user callback, or ended by an uncontained panic or a fault) has
\* returned nothing, and no invocation returned TRUE.
C11_AlwaysReturnsFalse ==
    \A k \in 1..Len(handed) :
        /\ handed[k].st \in {"returned", "panicked"} => handed[k].ret = "FALSE"
        /\ handed[k].st \in {"in_user", "decode_panic", "fault"} => handed[k].ret = "none"
        /\ handed[k].ret # "TRUE"

C11_Witness ==
    /\ Len(handed) = 2
    /\ handed[1].st = "panicked" /\ handed[1].ret = "FALSE"
    /\ handed[2].st = "returned" /\ handed[2].ret = "FALSE"
    /\ handed[1].ev.severity # handed[2].ev.severity

\* C12: while an invocation for the messenger of a DebugCallback is in
\* progress, on whatever thread, the drop of that DebugCallback has not got
\* past the native destroy call and the Box of its callback is allocated and
\* unreleased; the Box has been released only when the destroy call was
\* issued once and has returned, the fields have been dropped, and no
\* invocation for the messenger is in progress.
C12_BoxOutlivesInvocations ==
    \A s \in Subs :
        subs[s].result = "Ok" =>
            LET h == subs[s].debug_report_callback
                destroy == [fn |-> "destroy", instance |-> subs[s].instance,
                            handle |-> h, result |-> "none"]
            IN  /\ InProgress(h) # {} =>
                      /\ subs[s].pc \in {"active", "destroying"}
                      /\ heap.released[s] = 0
                      /\ heap.cells[subs[s].user_callback] = [state |-> "alloc", obj |-> s]
                /\ heap.released[s] > 0 =>
                      /\ subs[s].pc = "dead"
                      /\ CopiesIn(destroy, nativeCalls) = 1
                      /\ InProgress(h) = {}

\* the drop is inside the destroy call on one thread while an invocation
\* for its messenger runs the user callback on another
C12_Witness ==
    \E s \in Subs, t \in Threads :
        /\ subs[s].pc = "destroying"
        /\ t # subs[s].thread
        /\ t \in InProgress(subs[s].debug_report_callback)
        /\ handed[inflight[t]].st = "in_user"

\* the Message of an event whose texts decode, field by field
OwnMessage(ev) ==
    [severity |-> [error |-> HasBit(ev.severity, SEVERITY_ERROR),
                   warning |-> HasBit(ev.severity, SEVERITY_WARNING),
                   information |-> HasBit(ev.severity, SEVERITY_INFO),
                   verbose |-> HasBit(ev.severity, SEVERITY_VERBOSE)],
     ty |-> [general |-> HasBit(ev.ty, TYPE_GENERAL),
             validation |-> HasBit(ev.ty, TYPE_VALIDATION),
             performance |-> HasBit(ev.ty, TYPE_PERFORMANCE)],
     layer_prefix |-> IF ev.p_message_id_name.null THEN None
                      ELSE Some(ev.p_message_id_name.bytes),
     description |-> ev.p_message.bytes]

\* C13: invocations of `callback` in progress at once on several threads
\* are invocations for different events, each has made exactly one call
\* of the user callback, and the Message of that call is the one of its own
\* event (bitmasks, identifier and text), whatever the other invocations
\* carry; over all events, the user callback was called once per event that
\* reached it.
C13_ConcurrentInvocations ==
    /\ \A t \in Threads :
          inflight[t] # 0 =>
              LET k == inflight[t]
              IN  /\ k \in 1..Len(handed) /\ k \in 1..Len(invoked)
                  /\ handed[k].st = "in_user"
                  /\ invoked[k].h = handed[k].h
                  /\ invoked[k].message = OwnMessage(handed[k].ev)
    /\ \A t \in Threads, u \in Threads :
          (t # u /\ inflight[t] # 0) => inflight[t] # inflight[u]
    /\ Len(invoked) =
          Cardinality({k \in 1..Len(handed) :
                          handed[k].st \in {"in_user", "returned", "panicked"}})
    /\ \A k \in 1..Len(invoked) : invoked[k].message = OwnMessage(handed[k].ev)

\* two threads are inside the user callback of one active DebugCallback at
\* once, with different events
C13_Witness ==
    \E t \in Threads, u \in Threads, s \in Subs :
        /\ t # u
        /\ subs[s].pc = "active"
        /\ inflight[t] # 0 /\ inflight[u] # 0
        /\ handed[inflight[t]].h = subs[s].debug_report_callback
        /\ handed[inflight[u]].h = subs[s].debug_report_callback
        /\ handed[inflight[t]].ev # handed[inflight[u]].ev

\* the DebugCallbacks that exist (returned by new, fields not yet dropped)
\* and hold instance i
HoldersOf(i) ==
    {s \in Subs : /\ subs[s].instance = i
                  /\ subs[s].pc \in {"active", "destroying", "dropping"}}

\* C14: the strong count of an Instance is the Arc of the application, if
\* it still has it, plus one per DebugCallback that exists and holds the
\* Instance: a DebugCallback counts from the return of new until its fields
\* are dropped, so the Instance is alive (count at least 1) while a
\* DebugCallback of it is active and while its destroy call is made and
\* returns, also when the application has let go of its own Arc; the
\* reference is released only after the destroy call was issued.
C14_InstanceOutlivesDebugCallback ==
    /\ \A i \in Instances :
          instances[i].strong =
              (IF instances[i].app THEN 1 ELSE 0) + Cardinality(HoldersOf(i))
    /\ \A s \in Subs :
          /\ subs[s].pc \in {"active", "destroying", "dropping"} =>
                instances[subs[s].instance].strong >= 1
          /\ (subs[s].result = "Ok" /\ s \notin HoldersOf(subs[s].instance)) =>
                CopiesIn([fn |-> "destroy", instance |-> subs[s].instance,
                          handle |-> subs[s].debug_report_callback,
                          result |-> "none"], nativeCalls) = 1

\* the destroy call has been made and the DebugCallback holds the only
\* reference left to the Instance
C14_Witness ==
    \E s \in Subs :
        /\ subs[s].pc \in {"destroying", "dropping"}
        /\ ~instances[subs[s].instance].app
        /\ instances[subs[s].instance].strong = 1

\* the number of flags of a value that are set
Enabled(f) == Cardinality({x \in DOMAIN f : f[x]})

\* the number of bits of `bits` that are set in the mask m
BitsSet(m, bits) == Cardinality({b \in bits : HasBit(m, b)})

\* C15: decoding any mask gives a value (never a failure), each flag of
\* which is the named bit of the mask, and the same value as decoding the
\* mask with the unnamed bits cleared; the flags new builds from a value
\* are the sum of the named bits of its enabled flags: one bit per enabled
\* flag and no bit outside the four severity bits (the three type bits).
C15_UndefinedBitsIgnored ==
    /\ calc.op = "severity_decode" =>
          /\ calc.flags \in MessageSeverity
          /\ calc.flags = calc.flags_known
          /\ calc.flags = [error |-> HasBit(calc.m, SEVERITY_ERROR),
                           warning |-> HasBit(calc.m, SEVERITY_WARNING),
                           information |-> HasBit(calc.m, SEVERITY_INFO),
                           verbose |-> HasBit(calc.m, SEVERITY_VERBOSE)]
    /\ calc.op = "type_decode" =>
          /\ calc.flags \in MessageType
          /\ calc.flags = calc.flags_known
          /\ calc.flags = [general |-> HasBit(calc.m, TYPE_GENERAL),
                           validation |-> HasBit(calc.m, TYPE_VALIDATION),
                           performance |-> HasBit(calc.m, TYPE_PERFORMANCE)]
    /\ calc.op = "severity_codec" =>
          /\ calc.bits_f = (IF calc.f.error THEN SEVERITY_ERROR ELSE 0)
                           + (IF calc.f.warning THEN SEVERITY_WARNING ELSE 0)
                           + (IF calc.f.information THEN SEVERITY_INFO ELSE 0)
                           + (IF calc.f.verbose THEN SEVERITY_VERBOSE ELSE 0)
          /\ BitsSet(calc.bits_f, SeverityBits) = Enabled(calc.f)
          /\ calc.bits_f < 2 * SEVERITY_ERROR
    /\ calc.op = "type_codec" =>
          /\ calc.bits_f = (IF calc.f.general THEN TYPE_GENERAL ELSE 0)
                           + (IF calc.f.validation THEN TYPE_VALIDATION ELSE 0)
                           + (IF calc.f.performance THEN TYPE_PERFORMANCE ELSE 0)
          /\ BitsSet(calc.bits_f, TypeBits) = Enabled(calc.f)
          /\ calc.bits_f < 2 * TYPE_PERFORMANCE

\* a severity mask with a named bit, unnamed bits between the named ones and
\* the high bit was decoded
C15_Witness ==
    /\ calc.op = "severity_decode"
    /\ calc.m # calc.known
    /\ calc.m >= HIGH_BIT
    /\ HasBit(calc.m, 2 * SEVERITY_VERBOSE)
    /\ calc.flags.error /\ ~calc.flags.warning

\* the invocation for the k-th event handed over ended in a panic outside
\* catch_unwind: it returned nothing, the user callback was not called for
\* the event, and the panic left `callback` (the process does not go on)
UncontainedDecodePanic(k) ==
    /\ handed[k].st = "decode_panic"
    /\ handed[k].ret = "none"
    /\ process = "aborted"
    /\ k = Len(handed)
    /\ Len(invoked) = k - 1
    /\ \A t \in Threads : inflight[t] # k

\* C16: an event whose description is not UTF-8 ends its invocation in a
\* panic of the `expect` of the description (or of the identifier before
\* it, when that is not UTF-8 either), before the user callback is called:
\* no call of the user callback carries the event, nothing is returned, and
\* catch_unwind does not contain the panic.
C16_InvalidDescriptionFatal ==
    \A k \in 1..Len(handed) :
        ~IsUtf8(handed[k].ev.p_message.bytes) =>
            /\ UncontainedDecodePanic(k)
            /\ handed[k].at =
                  IF \/ handed[k].ev.p_message_id_name.null
                     \/ IsUtf8(handed[k].ev.p_message_id_name.bytes)
                  THEN "description" ELSE "layer_prefix"
            /\ \A j \in 1..Len(invoked) :
                  invoked[j].message.description # handed[k].ev.p_message.bytes

\* after an event that reached the user callback, an event with a null
\* identifier and a description that is not UTF-8 was handed over
C16_Witness ==
    /\ Len(handed) = 2
    /\ Len(invoked) = 1
    /\ handed[2].ev.p_message_id_name.null
    /\ ~IsUtf8(handed[2].ev.p_message.bytes)
    /\ handed[2].at = "description"

\* C17: an event with a null identifier is never the cause of a failure at
\* the identifier; when its description decodes, the user callback is
\* called for it, with a Message whose layer_prefix is None and whose
\* description is the event's text; an identifier that is present and
\* decodes is delivered as Some of its text.
C17_NullIdentifierIsNone ==
    \A k \in 1..Len(handed) :
        LET ev == handed[k].ev
        IN  /\ ev.p_message_id_name.null => handed[k].at # "layer_prefix"
            /\ (ev.p_message_id_name.null /\ IsUtf8(ev.p_message.bytes)) =>
                  /\ handed[k].st \in {"in_user", "returned", "panicked"}
                  /\ k <= Len(invoked)
                  /\ invoked[k].h = handed[k].h
                  /\ invoked[k].message.layer_prefix = None
                  /\ invoked[k].message.description = ev.p_message.bytes
            /\ (~ev.p_message_id_name.null /\ WellFormed(ev)) =>
                  /\ k <= Len(invoked)
                  /\ invoked[k].message.layer_prefix = Some(ev.p_message_id_name.bytes)

\* an event with an identifier and then one with a null identifier have
\* reached the user callback
C17_Witness ==
    /\ Len(invoked) = 2
    /\ ~handed[1].ev.p_message_id_name.null
    /\ handed[2].ev.p_message_id_name.null
    /\ invoked[1].message.layer_prefix.is_some
    /\ ~invoked[2].message.layer_prefix.is_some
    /\ handed[2].st = "returned"

\* C19: an event with a non-null identifier that is not UTF-8 ends its
\* invocation in a panic of the `expect` of the identifier, which comes
\* before the one of the description (also when the description is not
\* UTF-8 either) and before catch_unwind: the user callback is not called
\* for the event, nothing is returned and the panic is not contained.
C19_InvalidIdentifierFatal ==
    \A k \in 1..Len(handed) :
        LET id == handed[k].ev.p_message_id_name
        IN  (~id.null /\ ~IsUtf8(id.bytes)) =>
                /\ UncontainedDecodePanic(k)
                /\ handed[k].at = "layer_prefix"
                /\ \A j \in 1..Len(invoked) :
                      invoked[j].message.layer_prefix # Some(id.bytes)

\* after an event that reached the user callback, an event with an
\* identifier that is not UTF-8 and a description that is was handed over
C19_Witness ==
    /\ Len(handed) = 2
    /\ Len(invoked) = 1
    /\ ~handed[2].ev.p_message_id_name.null
    /\ ~IsUtf8(handed[2].ev.p_message_id_name.bytes)
    /\ IsUtf8(handed[2].ev.p_message.bytes)
    /\ handed[2].st = "decode_panic"

\* the filter with error and warning only, and the one with general only
ErrorAndWarningOnly ==
    [error |-> TRUE, warning |-> TRUE, information |-> FALSE, verbose |-> FALSE]
GeneralOnly == [general |-> TRUE, validation |-> FALSE, performance |-> FALSE]

\* the DebugCallback of call s was made with those two filters
MadeWithErrorsAndWarnings(s) ==
    /\ subs[s].result = "Ok"
    /\ subs[s].severity = ErrorAndWarningOnly
    /\ subs[s].ty = GeneralOnly

====
